---- MODULE Spec2Model ----
(***************************************************************************)
(* Model of the FlowState audio mastering pipeline (src/src/FlowState.py): *)
(* the AudioProcessor worker thread, the sequence builder's filter graph,  *)
(* and the FlowStateWindow handlers that start runs and edit the track     *)
(* list.                                                                   *)
(*                                                                         *)
(* Time is measured in ticks of half a second, so that min_duration / 2    *)
(* of a track lasting a whole number of seconds is a whole number of       *)
(* ticks.  Sec(s) converts seconds to ticks.                               *)
(***************************************************************************)
EXTENDS Integers, Sequences, FiniteSets, TLC

VARIABLES
    heap,        \* the Python list objects holding tracks: heap[id] is a list
    ui_tracks,   \* FlowStateWindow.tracks: id of the list object it names
    images,      \* FlowStateWindow.images (the list object every run shares)
    config,      \* FlowStateWindow.config (the one ProjectConfig every run shares)
    export_btn,  \* FlowStateWindow.export_btn.isEnabled()
    signals,     \* finished/error signals queued to the UI thread
    runs,        \* the AudioProcessor threads started so far
    fs,          \* the file system: existing file -> duration in ticks
    faults,      \* the faults the environment may inject in this behaviour
    frame        \* the call of a pure method under way: arguments and result

vars == <<heap, ui_tracks, images, config, export_btn, signals, runs, fs, faults,
          frame>>

-----------------------------------------------------------------------------
(* Bounds *)

MaxTracks == 3      \* longest track list drawn for the sequence builder
MaxRuns == 2        \* AudioProcessor threads the window may start
MaxStuck == 1       \* files whose os.remove fails during one cleanup
MaxBatch == 2       \* files added by one drop or file dialog
MaxUiTracks == 2    \* longest track list the window is given
MaxCalls == 2       \* calls of a pure method made on the same arguments
MaxNameLen == 3     \* longest project name drawn for the export names
MaxFiles == 3       \* files of the one batch drawn for the batch analysis

-----------------------------------------------------------------------------
(* Units and small helpers *)

Sec(s) == 2 * s

Min2(a, b) == IF a <= b THEN a ELSE b
Max2(a, b) == IF a >= b THEN a ELSE b
MinOf(S) == CHOOSE x \in S : \A y \in S : x <= y

RECURSIVE SumSeq(_)
SumSeq(s) == IF s = <<>> THEN 0 ELSE Head(s) + SumSeq(Tail(s))

Range(s) == {s[i] : i \in 1..Len(s)}

-----------------------------------------------------------------------------
(* Program constants *)

\* FlowState.py:643, the literal 4.0 in min(crossfade_seconds, min_duration / 2, 4.0)
CrossfadeCeiling == Sec(4)

\* FlowState.py:511, total_stages
TotalStages == 6

NoFile == [dir |-> "none", base |-> <<>>, name |-> ""]
TempFile(n) == [dir |-> "tmp", base |-> <<>>, name |-> n]
ExportFile(base, suffix) == [dir |-> "exports", base |-> base, name |-> suffix]

Exists(f, files) == f \in DOMAIN files
WriteFile(files, f, d) == [g \in (DOMAIN files) \cup {f} |-> IF g = f THEN d ELSE files[g]]
RemoveFiles(files, S) == [g \in (DOMAIN files) \ S |-> files[g]]

-----------------------------------------------------------------------------
(* AudioProcessor._build_sequenced_audio: the filter graph *)

Lbl(k, i) == [k |-> k, i |-> i]
Part(f, ins, out, st, d) == [f |-> f, ins |-> ins, out |-> out, st |-> st, d |-> d]

SafeCrossfadeIgnoresTracks(crossfade, min_duration) ==
    Min2(crossfade, CrossfadeCeiling)

\* safe_crossfade = min(self.config.crossfade_seconds, min_duration / 2, 4.0)
SafeCrossfade(crossfade, min_duration) ==
    Min2(Min2(crossfade, min_duration \div 2), CrossfadeCeiling)

\* "Prepare each track": first fades in, last fades out, the others pass
PrepareParts(tr, cfg) ==
    LET n == Len(tr) IN
    [k \in 1..n |->
        LET i == k - 1 IN
        IF i = 0
        THEN Part("afade_in", <<Lbl("in", i)>>, Lbl("a", i), 0, cfg.fade_in_seconds)
        ELSE IF i = n - 1
        THEN Part("afade_out", <<Lbl("in", i)>>, Lbl("a", i),
                  Max2(0, tr[k].duration - cfg.fade_out_seconds), cfg.fade_out_seconds)
        ELSE Part("anull", <<Lbl("in", i)>>, Lbl("a", i), 0, 0)]

\* "Crossfade chain with safe duration"
CrossfadeMissesChain(n, safe_crossfade) ==
    [k \in 1..(n - 1) |->
        LET i == k - 1 IN
        Part("acrossfade", <<Lbl("a", i), Lbl("a", i + 1)>>, Lbl("cf", i), 0, safe_crossfade)]

CrossfadeChain(n, safe_crossfade) ==
    [k \in 1..(n - 1) |->
        LET i == k - 1 IN
        IF i = 0
        THEN Part("acrossfade", <<Lbl("a", i), Lbl("a", i + 1)>>, Lbl("cf", i), 0, safe_crossfade)
        ELSE Part("acrossfade", <<Lbl("cf", i - 1), Lbl("a", i + 1)>>, Lbl("cf", i), 0, safe_crossfade)]

FilterComplex(tr, cfg, safe_crossfade) ==
    LET n == Len(tr)
        final_label == IF n > 1 THEN Lbl("cf", n - 2) ELSE Lbl("a", 0)
    IN  PrepareParts(tr, cfg) \o CrossfadeChain(n, safe_crossfade) \o
        <<Part("aloudnorm", <<final_label>>, Lbl("outa", 0), 0, 0)>>

-----------------------------------------------------------------------------
(* The rendering engine, as far as durations go *)

BadGraph == 0 - 1

\* Duration of the stream a filter produces from the durations of its inputs.
\* acrossfade overlaps the end of the first input with the start of the
\* second for d; the overlap cannot exceed either input.
FilterOut(p, ins) ==
    IF p.f = "acrossfade"
    THEN ins[1] + ins[2] - Min2(p.d, Min2(ins[1], ins[2]))
    ELSE ins[1]

\* ffmpeg -filter_complex: evaluates the parts in order; env maps each label
\* defined so far to the duration of its stream.  A part naming a label that
\* no input or earlier part defines makes the invocation fail.
RECURSIVE RenderGraph(_, _, _)
RenderGraph(parts, env, want) ==
    IF parts = <<>>
    THEN IF want \in DOMAIN env THEN env[want] ELSE BadGraph
    ELSE LET p == Head(parts) IN
         IF \E j \in 1..Len(p.ins) : p.ins[j] \notin DOMAIN env
         THEN BadGraph
         ELSE LET d == FilterOut(p, [j \in 1..Len(p.ins) |-> env[p.ins[j]]])
              IN  RenderGraph(Tail(parts),
                              [l \in (DOMAIN env) \cup {p.out} |->
                                   IF l = p.out THEN d ELSE env[l]],
                              want)

\* the "-i track.path" inputs, labelled [i:a]
InputEnv(tr) ==
    [l \in {Lbl("in", k - 1) : k \in 1..Len(tr)} |-> tr[l.i + 1].duration]

-----------------------------------------------------------------------------
(* AudioProcessor: signals, temp files, cleanup *)

NoExc == ""

Stages == <<"sequencing", "binaural", "mixing", "exporting", "video", "finalizing">>

Ev(type, stage, percent, step, msg) ==
    [type |-> type, stage |-> stage, percent |-> percent, step |-> step, msg |-> msg]

\* AudioProcessor.__init__
NewProcessor(tracks_ref) ==
    [pc |-> "sequencing", tracks |-> tracks_ref, temp_files |-> <<>>,
     current_stage |-> 0, events |-> <<>>, exc |-> NoExc,
     final_audio |-> NoFile, audio_path |-> NoFile, video_path |-> NoFile,
     safe_crossfade |-> 0, filter_parts |-> <<>>, loop_filters |-> <<>>,
     sequenced |-> <<>>,
     seq_duration |-> 0, left_freq |-> 0, right_freq |-> 0,
     wrote |-> {}, del_failed |-> FALSE, result_tracks |-> <<>>]

\* AudioProcessor.cleanup: every tracked file that exists is removed; an
\* os.remove that raises (f \in stuck) is swallowed by the bare except.
\* The result says which files are left and whether cleanup itself raised.
RECURSIVE CleanupRaises(_, _, _)
CleanupRaises(files, temp_files, stuck) ==
    IF temp_files = <<>>
    THEN [files |-> files, exc |-> NoExc]
    ELSE LET f == Head(temp_files) IN
         IF Exists(f, files) /\ f \in stuck
         THEN [files |-> files, exc |-> "OSError"]
         ELSE CleanupRaises(RemoveFiles(files, {f}), Tail(temp_files), stuck)

RECURSIVE cleanup(_, _, _)
cleanup(files, temp_files, stuck) ==
    IF temp_files = <<>>
    THEN [files |-> files, exc |-> NoExc]
    ELSE LET f == Head(temp_files) IN
         IF Exists(f, files) /\ f \in stuck
         THEN cleanup(files, Tail(temp_files), stuck)
         ELSE cleanup(RemoveFiles(files, {f}), Tail(temp_files), stuck)

\* the sets of undeletable files a cleanup may meet
StuckSets(temp_files, files) ==
    IF faults.stuck
    THEN {S \in SUBSET (Range(temp_files) \cap DOMAIN files) : Cardinality(S) <= MaxStuck}
    ELSE {{}}

-----------------------------------------------------------------------------
(* Steps of the worker thread.  A step state st = [rec, files, exc] is     *)
(* threaded through the statements of a stage; once exc is set (an          *)
(* exception is propagating) the remaining statements are skipped.         *)

St(rec, files) == [rec |-> rec, files |-> files, exc |-> NoExc]

Dur(files, f) == IF Exists(f, files) THEN files[f] ELSE 0

\* self.<signal>.emit(...)
Emit(st, type, stage, msg) ==
    IF st.exc # NoExc THEN st
    ELSE [st EXCEPT !.rec.events = Append(@, Ev(type, stage, 0, 0, msg))]

\* emit_progress adding the stage's own percentage without scaling it
emit_progress_unscaled(st, percent_in_stage) ==
    IF st.exc # NoExc THEN st
    ELSE LET overall_percent ==
                 (st.rec.current_stage * 100) \div TotalStages + percent_in_stage
         IN  [st EXCEPT !.rec.events =
                 Append(@, Ev("progress", Stages[st.rec.current_stage + 1],
                              overall_percent, st.rec.current_stage + 1, ""))]

\* AudioProcessor.emit_progress
emit_progress(st, percent_in_stage) ==
    IF st.exc # NoExc THEN st
    ELSE LET overall_percent ==
                 (st.rec.current_stage * 100 + percent_in_stage) \div TotalStages
         IN  [st EXCEPT !.rec.events =
                 Append(@, Ev("progress", Stages[st.rec.current_stage + 1],
                              overall_percent, st.rec.current_stage + 1, ""))]

SetStage(st, n) ==
    IF st.exc # NoExc THEN st ELSE [st EXCEPT !.rec.current_stage = n]

\* self.temp_files.append(f)
Track(st, f) ==
    IF st.exc # NoExc THEN st ELSE [st EXCEPT !.rec.temp_files = Append(@, f)]

\* self.<field> = value, an assignment of process() or of a stage method
Assign(st, field, value) ==
    IF st.exc # NoExc THEN st ELSE [st EXCEPT !.rec[field] = value]

\* subprocess.run(cmd, check=True): the invocation `name` reads ins and writes
\* out with duration d.  It exits non-zero when the environment makes it
\* (fail = name) or when an input is missing; a failed invocation may or may
\* not leave its output file behind (partial).
Run(st, fail, partial, name, ins, out, d) ==
    IF st.exc # NoExc THEN st
    ELSE IF fail = name \/ d < 0 \/ \E f \in ins : ~Exists(f, st.files)
    THEN [st EXCEPT !.exc = name,
                    !.files = IF partial THEN WriteFile(@, out, 0) ELSE @,
                    !.rec.wrote = IF partial THEN @ \cup {out} ELSE @]
    ELSE [st EXCEPT !.files = WriteFile(@, out, d),
                    !.rec.wrote = @ \cup {out}]

\* float(ffprobe(...).stdout.strip()): ValueError when ffprobe printed nothing
Probe(st, fail, name, f) ==
    IF st.exc # NoExc THEN st
    ELSE IF fail = name \/ ~Exists(f, st.files)
    THEN [st EXCEPT !.exc = name]
    ELSE st

-----------------------------------------------------------------------------
(* Export names *)

Alnum == {"M", "y", "x", "7", "S", "l", "e", "p", "i"}
KeptChars == Alnum \cup {"-", "_", " "}

\* the filter with a space put in the place of each character it drops
RECURSIVE KeepCharsSpaced(_)
KeepCharsSpaced(name) ==
    IF name = <<>> THEN <<>>
    ELSE IF Head(name) \in KeptChars
         THEN <<Head(name)>> \o KeepCharsSpaced(Tail(name))
         ELSE <<" ">> \o KeepCharsSpaced(Tail(name))

RECURSIVE KeepChars(_)
KeepChars(name) ==
    IF name = <<>> THEN <<>>
    ELSE IF Head(name) \in KeptChars
         THEN <<Head(name)>> \o KeepChars(Tail(name))
         ELSE KeepChars(Tail(name))

RECURSIVE LStrip(_)
LStrip(name) ==
    IF name # <<>> /\ Head(name) = " " THEN LStrip(Tail(name)) ELSE name

RECURSIVE RStrip(_)
RStrip(name) ==
    IF name # <<>> /\ name[Len(name)] = " "
    THEN RStrip(SubSeq(name, 1, Len(name) - 1)) ELSE name

DefaultExportName == <<"flowstate_export">>

\* "".join(c for c in project_name if c.isalnum() or c in "-_ ").strip(),
\* with the fallback to "flowstate_export"
SafeName(project_name) ==
    LET safe_name == RStrip(LStrip(KeepChars(project_name)))
    IN  IF safe_name = <<>> THEN DefaultExportName ELSE safe_name

-----------------------------------------------------------------------------
(* BinauralWav presets, frequencies in tenths of a hertz *)

BINAURAL_PRESETS ==
    [delta_deep_sleep |-> [base |-> 2000, beat |-> 25],
     theta_deep       |-> [base |-> 2000, beat |-> 60],
     theta_light      |-> [base |-> 2000, beat |-> 45],
     alpha_relax      |-> [base |-> 2000, beat |-> 100],
     alpha_light      |-> [base |-> 2000, beat |-> 80],
     custom           |-> [base |-> 2000, beat |-> 50]]

-----------------------------------------------------------------------------
(* The stages of AudioProcessor.process *)

SequencedWav == TempFile("sequenced.wav")
BinauralWav == TempFile("binaural.wav")
MixedWav == TempFile("mixed.wav")
LoopedWav == TempFile("looped.wav")
VideoBlackMp4 == TempFile("video_black.mp4")
IntroPartMp4 == TempFile("intro_part.mp4")
BlackPartMp4 == TempFile("black_part.mp4")
ConcatTxt == TempFile("concat.txt")
VideoImagesMp4 == TempFile("video_images.mp4")

\* _normalize_track: the -af chain afade=t=in:ss=0:d=fade_in_seconds,
\* afade=t=out:st=0:d=fade_out_seconds, aloudnorm
NormalizeFilters(cfg) ==
    <<Part("afade_in", <<Lbl("in", 0)>>, Lbl("af", 0), 0, cfg.fade_in_seconds),
      Part("afade_out", <<Lbl("af", 0)>>, Lbl("af", 1), 0, cfg.fade_out_seconds),
      Part("aloudnorm", <<Lbl("af", 1)>>, Lbl("outa", 0), 0, 0)>>

\* AudioProcessor._normalize_track(self.tracks[0].path, output)
normalize_track(st, tr, cfg, fail, partial) ==
    Run(Assign(st, "filter_parts", NormalizeFilters(cfg)), fail, partial, "normalize",
        {}, SequencedWav,
        RenderGraph(NormalizeFilters(cfg), InputEnv(tr), Lbl("outa", 0)))

\* AudioProcessor._build_sequenced_audio
build_sequenced_audio(st0, tr, cfg, fail, partial) ==
    LET st == [st0 EXCEPT !.rec.sequenced = tr] IN
    IF Len(tr) = 1
    THEN Track(normalize_track(st, tr, cfg, fail, partial), SequencedWav)
    ELSE IF Len(tr) = 0
    THEN [st EXCEPT !.exc = "min_empty"]
    ELSE LET min_duration == MinOf({tr[k].duration : k \in 1..Len(tr)})
             safe_crossfade == SafeCrossfade(cfg.crossfade_seconds, min_duration)
             filter_parts == FilterComplex(tr, cfg, safe_crossfade)
             st1 == emit_progress([st EXCEPT !.rec.safe_crossfade = safe_crossfade], 20)
             st2 == [st1 EXCEPT !.rec.filter_parts = filter_parts]
             d == RenderGraph(filter_parts, InputEnv(tr), Lbl("outa", 0))
             st3 == Run(st2, fail, partial, "sequence", {}, SequencedWav, d)
         IN  Track(Assign(st3, "seq_duration", d), SequencedWav)

\* BinauralGenerator.generate with the beat taken alone as the right frequency
BinauralCmdBeatOnly(duration, base_freq, beat_freq, output_path, sample_rate) ==
    [left |-> [frequency |-> base_freq, sample_rate |-> sample_rate],
     right |-> [frequency |-> beat_freq, sample_rate |-> sample_rate],
     filter_complex |-> "join=inputs=2:channel_layout=stereo",
     t |-> duration, codec |-> "pcm_s24le", output |-> output_path]

\* BinauralGenerator.generate: the left and right sine inputs of its command
BinauralCmd(duration, base_freq, beat_freq, output_path, sample_rate) ==
    [left |-> [frequency |-> base_freq, sample_rate |-> sample_rate],
     right |-> [frequency |-> base_freq + beat_freq, sample_rate |-> sample_rate],
     filter_complex |-> "join=inputs=2:channel_layout=stereo",
     t |-> duration, codec |-> "pcm_s24le", output |-> output_path]

\* BinauralGenerator.generate: subprocess.run(cmd, check=True)
generate(st, cmd, fail, partial) ==
    Run(Assign(Assign(st, "left_freq", cmd.left.frequency),
               "right_freq", cmd.right.frequency),
        fail, partial, "binaural", {}, cmd.output, cmd.t)

\* sample_rate: int = 48000
DefaultSampleRate == 48000

\* the preset _generate_binaural looks up, and the base and beat it takes
PresetOf(cfg) ==
    IF cfg.binaural_preset \in DOMAIN BINAURAL_PRESETS
    THEN BINAURAL_PRESETS[cfg.binaural_preset]
    ELSE BINAURAL_PRESETS["delta_deep_sleep"]

BinauralBase(cfg) ==
    IF cfg.binaural_preset = "custom" THEN cfg.binaural_base_freq ELSE PresetOf(cfg).base

BinauralBeat(cfg) ==
    IF cfg.binaural_preset = "custom" THEN cfg.binaural_beat_freq ELSE PresetOf(cfg).beat

\* AudioProcessor._generate_binaural
generate_binaural(st, cfg, fail, partial) ==
    Track(generate(Probe(st, fail, "probe_sequenced", SequencedWav),
                   BinauralCmd(Dur(st.files, SequencedWav), BinauralBase(cfg),
                               BinauralBeat(cfg), BinauralWav, DefaultSampleRate),
                   fail, partial),
          BinauralWav)

\* AudioProcessor._mix_audio: amix duration=longest
mix_audio(st, fail, partial) ==
    Track(Run(st, fail, partial, "mix", {SequencedWav, BinauralWav}, MixedWav,
              Max2(Dur(st.files, SequencedWav), Dur(st.files, BinauralWav))),
          MixedWav)

\* ffmpeg -stream_loop <loops> -i <input of length d> -t <t>: the input is
\* played loops + 1 times, without end when loops is -1, and cut at t
StreamLoop(d, loops, t) ==
    IF d = 0 THEN 0
    ELSE IF loops < 0 THEN t
    ELSE Min2(t, (loops + 1) * d)

\* _loop_audio, "-af": afade=t=in:ss=0:d=0.5,afade=t=out:st=0:d=0.5
LoopFilters ==
    <<Part("afade_in", <<Lbl("in", 0)>>, Lbl("af", 0), 0, 1),
      Part("afade_out", <<Lbl("af", 0)>>, Lbl("outa", 0), 0, 1)>>

loop_audio_untracked(st, audio_path, target_duration, fail, partial) ==
    Run(Assign(st, "loop_filters", LoopFilters), fail, partial, "loop",
        {audio_path}, LoopedWav,
        StreamLoop(Dur(st.files, audio_path), 0 - 1, target_duration))

\* _loop_audio without "-stream_loop", "-1"
loop_audio_once(st, audio_path, target_duration, fail, partial) ==
    Track(Run(Assign(st, "loop_filters", LoopFilters), fail, partial, "loop",
              {audio_path}, LoopedWav,
              StreamLoop(Dur(st.files, audio_path), 0, target_duration)),
          LoopedWav)

\* AudioProcessor._loop_audio: -stream_loop -1 ... -t target_duration
loop_audio(st, audio_path, target_duration, fail, partial) ==
    Track(Run(Assign(st, "loop_filters", LoopFilters), fail, partial, "loop",
              {audio_path}, LoopedWav,
              StreamLoop(Dur(st.files, audio_path), 0 - 1, target_duration)),
          LoopedWav)

\* AudioProcessor._export_audio: shutil.copy2 into the exports directory
export_audio(st, cfg, audio_path, fail, partial) ==
    LET output == ExportFile(SafeName(cfg.project_name), "_master.wav")
    IN  Assign(Run(st, fail, partial, "copy", {audio_path}, output,
                   Dur(st.files, audio_path)),
               "audio_path", output)

\* _create_black_video, "Concatenate": the concat list is written and
\* tracked, then ffmpeg -f concat joins the intro and the black part
concat_parts(st, fail, partial) ==
    IF st.exc # NoExc THEN st
    ELSE Run(Track([st EXCEPT !.files = WriteFile(@, ConcatTxt, 0),
                              !.rec.wrote = @ \cup {ConcatTxt}],
                   ConcatTxt),
             fail, partial, "concat", {IntroPartMp4, BlackPartMp4, ConcatTxt},
             VideoBlackMp4,
             Dur(st.files, IntroPartMp4) + Dur(st.files, BlackPartMp4))

\* _create_black_video: shutil.move(intro_path, output)
move_intro(st, fail) ==
    IF st.exc # NoExc THEN st
    ELSE IF fail = "move" \/ ~Exists(IntroPartMp4, st.files)
    THEN [st EXCEPT !.exc = "move"]
    ELSE [st EXCEPT
             !.files = RemoveFiles(
                 WriteFile(@, VideoBlackMp4, Dur(st.files, IntroPartMp4)),
                 {IntroPartMp4}),
             !.rec.wrote = @ \cup {VideoBlackMp4}]

\* _create_black_video keeping the intro part as the whole video
black_intro_only(st, remainder, fail, partial) ==
    move_intro(st, fail)

\* _create_black_video with intro text, after the intro part was rendered
black_after_intro(st, remainder, fail, partial) ==
    IF remainder > 0
    THEN concat_parts(Track(Run(st, fail, partial, "black_part", {}, BlackPartMp4,
                                remainder), BlackPartMp4),
                      fail, partial)
    ELSE move_intro(st, fail)

\* AudioProcessor._create_black_video
create_black_video(st, cfg, duration, fail, partial) ==
    IF cfg.intro_text # ""
    THEN black_after_intro(Track(Run(st, fail, partial, "intro", {}, IntroPartMp4,
                                     cfg.intro_duration_seconds), IntroPartMp4),
                           duration - cfg.intro_duration_seconds, fail, partial)
    ELSE Run(st, fail, partial, "black", {}, VideoBlackMp4, duration)

\* AudioProcessor._create_image_video
create_image_video(st, cfg, imgs, duration, fail, partial) ==
    IF imgs = <<>>
    THEN [st |-> create_black_video(st, cfg, duration, fail, partial), video |-> VideoBlackMp4]
    ELSE [st |-> Run(st, fail, partial, "image", {}, VideoImagesMp4, duration),
          video |-> VideoImagesMp4]

\* AudioProcessor._create_hybrid_video: "Simplified hybrid implementation"
create_hybrid_video(st, cfg, duration, fail, partial) ==
    create_black_video(st, cfg, duration, fail, partial)

\* _create_video, "Create video based on mode"
video_only(st, cfg, imgs, duration, fail, partial) ==
    IF cfg.video_mode = "black_screen"
    THEN [st |-> create_black_video(st, cfg, duration, fail, partial),
          video |-> VideoBlackMp4]
    ELSE IF cfg.video_mode = "images" /\ imgs # <<>>
    THEN create_image_video(st, cfg, imgs, duration, fail, partial)
    ELSE IF cfg.video_mode = "hybrid"
    THEN [st |-> create_hybrid_video(st, cfg, duration, fail, partial),
          video |-> VideoBlackMp4]
    ELSE \* "Fallback to black screen"
         [st |-> create_black_video(st, cfg, duration, fail, partial),
          video |-> VideoBlackMp4]

\* _create_video, "Now add audio": ffmpeg -i video -i audio ... -shortest output
add_audio(st, video, audio_path, output, fail, partial) ==
    Assign(Run(st, fail, partial, "mux", {video, audio_path}, output,
               Min2(Dur(st.files, video), Dur(st.files, audio_path))),
           "video_path", output)

\* _create_video after the video-only file was made
track_and_add_audio(made, audio_path, output, fail, partial) ==
    add_audio(Track(made.st, made.video), made.video, audio_path, output, fail, partial)

\* AudioProcessor._create_video
create_video(st, cfg, imgs, audio_path, fail, partial) ==
    track_and_add_audio(
        video_only(Probe(st, fail, "probe_final", audio_path), cfg, imgs,
                   Dur(st.files, audio_path), fail, partial),
        audio_path, ExportFile(SafeName(cfg.project_name), ".mp4"), fail, partial)

-----------------------------------------------------------------------------
(* AudioProcessor.run / process as steps of the worker thread r.  Each    *)
(* step is one stage of process(); when a statement of the stage raises,   *)
(* the step continues in run()'s except clause.                            *)

Signal(r, type) == [run |-> r, type |-> type]

\* the invocations of the video stage, and of all stages ("min_empty" is
\* min() of an empty track list)
VideoCalls ==
    {"probe_final", "intro", "black_part", "concat", "move", "black", "image", "mux"}

StageCalls ==
    {"normalize", "sequence", "min_empty", "probe_sequenced", "binaural", "mix",
     "probe_mixed", "loop", "copy"} \cup VideoCalls

AnyFault == [fail |-> StageCalls, partial |-> BOOLEAN, stuck |-> TRUE]
MixFault == [fail |-> {"mix"}, partial |-> {FALSE}, stuck |-> FALSE]

RunExceptEmitsTwice(r, st, stuck) ==
    LET ev == Ev("error", "", 0, 0, st.exc)
        rec1 == [st.rec EXCEPT !.exc = st.exc, !.events = Append(Append(@, ev), ev)]
        c == cleanup(st.files, rec1.temp_files, stuck)
    IN  /\ runs' = [runs EXCEPT ![r] = [rec1 EXCEPT !.pc = "failed"]]
        /\ fs' = c.files
        /\ signals' = Append(signals, Signal(r, "error"))

\* run(): except Exception as e: self.error.emit(str(e)); self.cleanup()
RunExcept(r, st, stuck) ==
    LET rec1 == [st.rec EXCEPT !.exc = st.exc,
                               !.events = Append(@, Ev("error", "", 0, 0, st.exc))]
        c == cleanup(st.files, rec1.temp_files, stuck)
    IN  /\ runs' = [runs EXCEPT ![r] =
                       [rec1 EXCEPT !.pc = IF c.exc = NoExc THEN "failed" ELSE "crashed",
                                    !.del_failed = @ \/ stuck # {}]]
        /\ fs' = c.files
        /\ signals' = Append(signals, Signal(r, "error"))

FinishRetries(r, st, nextpc, stuck) ==
    /\ runs' = [runs EXCEPT ![r] =
                   [st.rec EXCEPT !.pc = IF st.exc = NoExc THEN nextpc ELSE @]]
    /\ fs' = st.files
    /\ UNCHANGED signals

Finish(r, st, nextpc, stuck) ==
    IF st.exc = NoExc
    THEN /\ runs' = [runs EXCEPT ![r] = [st.rec EXCEPT !.pc = nextpc]]
         /\ fs' = st.files
         /\ UNCHANGED signals
    ELSE RunExcept(r, st, stuck)

StuckChoices(st) ==
    IF st.exc = NoExc THEN {{}} ELSE StuckSets(st.rec.temp_files, st.files)

\* the end of a step of the worker: on to the next stage, or run()'s except
\* clause with whatever cleanup meets
EndStage(r, st, nextpc) ==
    \E stuck \in StuckChoices(st) : Finish(r, st, nextpc, stuck)

\* the outcomes of the invocations of a stage: none fails, or one of those
\* the environment may break does
Fails(calls) == {"none"} \cup (calls \cap faults.fail)
Partials(fail) == IF fail = "none" THEN {FALSE} ELSE faults.partial

\* Stage 1: Build sequenced audio with crossfades
Sequencing(r) ==
    /\ runs[r].pc = "sequencing"
    /\ \E fail \in Fails({"normalize", "sequence"}) : \E partial \in Partials(fail) :
        LET st1 == Emit(SetStage(St(runs[r], fs), 0), "stage_started", "sequencing", "")
            st2 == emit_progress(st1, 10)
            st3 == build_sequenced_audio(st2, heap[runs[r].tracks], config, fail, partial)
            st4 == emit_progress(st3, 100)
            st5 == Emit(st4, "stage_completed", "sequencing", "")
        IN  EndStage(r, st5, "binaural")
    /\ UNCHANGED <<heap, ui_tracks, images, config, export_btn, faults, frame>>

\* Stage 2: Generate binaural beats
Binaural(r) ==
    /\ runs[r].pc = "binaural"
    /\ \E fail \in Fails({"probe_sequenced", "binaural"}) : \E partial \in Partials(fail) :
        LET st1 == Emit(SetStage(St(runs[r], fs), 1), "stage_started", "binaural", "")
            st2 == emit_progress(st1, 20)
            st3 == generate_binaural(st2, config, fail, partial)
            st4 == emit_progress(st3, 100)
            st5 == Emit(st4, "stage_completed", "binaural", "")
        IN  EndStage(r, st5, "mixing")
    /\ UNCHANGED <<heap, ui_tracks, images, config, export_btn, faults, frame>>

\* Stage 3: Mix audio layers
Mixing(r) ==
    /\ runs[r].pc = "mixing"
    /\ \E fail \in Fails({"mix"}) : \E partial \in Partials(fail) :
        LET st1 == Emit(SetStage(St(runs[r], fs), 2), "stage_started", "mixing", "")
            st2 == emit_progress(st1, 30)
            st3 == mix_audio(st2, fail, partial)
            st4 == Assign(st3, "final_audio", MixedWav)
            st5 == emit_progress(st4, 100)
            st6 == Emit(st5, "stage_completed", "mixing", "")
        IN  EndStage(r, st6, "exporting")
    /\ UNCHANGED <<heap, ui_tracks, images, config, export_btn, faults, frame>>

\* "Handle looping if enabled" without the test of config.loop_mode
loop_if_shorter(st, cfg, fail, partial) ==
    IF cfg.target_duration_minutes > 0
    THEN LET final_audio == st.rec.final_audio
             sp == Probe(st, fail, "probe_mixed", final_audio)
             current_duration == Dur(st.files, final_audio)
             target_duration == Sec(cfg.target_duration_minutes * 60)
         IN  IF sp.exc = NoExc /\ current_duration < target_duration
             THEN Assign(loop_audio(emit_progress(sp, 55), final_audio,
                                    target_duration, fail, partial),
                         "final_audio", LoopedWav)
             ELSE sp
    ELSE st

\* process(), "Handle looping if enabled": the mix is looped when it is
\* shorter than the target
loop_if_enabled(st, cfg, fail, partial) ==
    IF cfg.loop_mode /\ cfg.target_duration_minutes > 0
    THEN LET final_audio == st.rec.final_audio
             sp == Probe(st, fail, "probe_mixed", final_audio)
             current_duration == Dur(st.files, final_audio)
             target_duration == Sec(cfg.target_duration_minutes * 60)
         IN  IF sp.exc = NoExc /\ current_duration < target_duration
             THEN Assign(loop_audio(emit_progress(sp, 55), final_audio,
                                    target_duration, fail, partial),
                         "final_audio", LoopedWav)
             ELSE sp
    ELSE st

\* process(): audio_export = self._export_audio(final_audio)
export_final_audio(st, cfg, fail, partial) ==
    export_audio(st, cfg, st.rec.final_audio, fail, partial)

\* process(): video_export = self._create_video(final_audio)
create_final_video(st, cfg, imgs, fail, partial) ==
    create_video(st, cfg, imgs, st.rec.final_audio, fail, partial)

\* Stage 4: Normalize and export audio
Exporting(r) ==
    /\ runs[r].pc = "exporting"
    /\ \E fail \in Fails({"probe_mixed", "loop", "copy"}) : \E partial \in Partials(fail) :
        LET st1 == Emit(SetStage(St(runs[r], fs), 3), "stage_started", "exporting", "")
            st2 == emit_progress(st1, 50)
            st3 == loop_if_enabled(st2, config, fail, partial)
            st4 == export_final_audio(st3, config, fail, partial)
            st5 == emit_progress(st4, 100)
            st6 == Emit(st5, "stage_completed", "exporting", "")
        IN  EndStage(r, st6, "video")
    /\ UNCHANGED <<heap, ui_tracks, images, config, export_btn, faults, frame>>

\* Stage 5: Create video if requested
Video(r) ==
    /\ runs[r].pc = "video"
    /\ \E fail \in Fails(VideoCalls) : \E partial \in Partials(fail) :
        LET st0 == SetStage(St(runs[r], fs), 4)
            st6 == IF config.video_mode # "audio_only"
                   THEN LET st1 == Emit(st0, "stage_started", "video", "")
                            st2 == emit_progress(st1, 40)
                            st3 == create_final_video(st2, config, images, fail, partial)
                            st4 == emit_progress(st3, 100)
                        IN  Emit(st4, "stage_completed", "video", "")
                   ELSE LET st1 == Emit(st0, "stage_started", "video", "")
                            st2 == emit_progress(st1, 100)
                        IN  Emit(st2, "stage_completed", "video", "")
        IN  EndStage(r, st6, "finalizing")
    /\ UNCHANGED <<heap, ui_tracks, images, config, export_btn, faults, frame>>

\* process(), stage 6: self.cleanup()
final_cleanup(st, stuck) ==
    LET c == cleanup(st.files, st.rec.temp_files, stuck)
    IN  [st EXCEPT !.files = c.files, !.exc = c.exc,
                   !.rec.del_failed = @ \/ stuck # {}]

\* the end of process(): the finished signal is queued for the UI thread
Finished(r, st, stuck) ==
    IF st.exc = NoExc
    THEN /\ runs' = [runs EXCEPT ![r] = [st.rec EXCEPT !.pc = "done"]]
         /\ fs' = st.files
         /\ signals' = Append(signals, Signal(r, "finished"))
    ELSE RunExcept(r, st, stuck)

\* Stage 6: Finalize and cleanup, then self.finished.emit(results)
Finalizing(r) ==
    /\ runs[r].pc = "finalizing"
    /\ \E stuck \in StuckSets(runs[r].temp_files, fs) :
        LET st1 == Emit(SetStage(St(runs[r], fs), 5), "stage_started", "finalizing", "")
            st2 == emit_progress(st1, 50)
            st3 == final_cleanup(st2, stuck)
            st4 == emit_progress(st3, 100)
            st5 == Emit(st4, "stage_completed", "finalizing", "")
            st6 == Assign(st5, "result_tracks", heap[runs[r].tracks])
            st7 == Emit(st6, "finished", "", "")
        IN  Finished(r, st7, stuck)
    /\ UNCHANGED <<heap, ui_tracks, images, config, export_btn, faults, frame>>

-----------------------------------------------------------------------------
(* Tracks and configurations *)

\* FFmpegAnalyzer.analyze, "Determine energy profile"
EnergyProfile(rms_loudness) ==
    IF rms_loudness < 0 - 25 THEN "low"
    ELSE IF rms_loudness < 0 - 18 THEN "mid"
    ELSE "high"

\* the AudioTrack analyze() returns for a file of the given length and loudness
AudioTrack(path, seconds, lufs) ==
    [path |-> path, duration |-> Sec(seconds), loudness_lufs |-> lufs,
     energy_profile |-> EnergyProfile(lufs)]

\* ProjectConfig as start_processing fills it from the widgets
ProjectConfig(name, loop, minutes, crossfade, mode, intro) ==
    [project_name |-> name,
     target_duration_minutes |-> minutes,
     loop_mode |-> loop,
     binaural_preset |-> "delta_deep_sleep",
     binaural_base_freq |-> 2000,
     binaural_beat_freq |-> 25,
     binaural_volume_db |-> 0 - 20,
     crossfade_seconds |-> crossfade,
     fade_in_seconds |-> Sec(3),
     fade_out_seconds |-> Sec(5),
     target_loudness_lufs |-> 0 - 16,
     video_mode |-> mode,
     intro_text |-> intro,
     intro_duration_seconds |-> Sec(10),
     youtube_title |-> ""]

VideoModes == {"black_screen", "images", "hybrid", "audio_only"}

\* loop_hours has range 0.5 .. 24 hours: 30 minutes is its minimum
MinLoopMinutes == 30

\* track lists of the pipeline runs: one short track (shorter than the
\* intro), two tracks, three tracks
PipelineTrackLists ==
    {<<AudioTrack("a", 6, 0 - 20)>>,
     <<AudioTrack("a", 10, 0 - 30), AudioTrack("b", 100, 0 - 20)>>,
     <<AudioTrack("a", 300, 0 - 30), AudioTrack("b", 400, 0 - 20),
       AudioTrack("c", 200, 0 - 10)>>}

PipelineConfigs ==
    {ProjectConfig(<<"M", "y">>, loop, MinLoopMinutes, Sec(8), mode, intro) :
        loop \in BOOLEAN, mode \in VideoModes, intro \in {"", "Welcome"}}

\* start_processing copies preset_combo, base_freq and beat_freq into the
\* config; the two spin boxes keep their values whichever preset is selected
WithBinaural(cfg, preset, base, beat) ==
    [cfg EXCEPT !.binaural_preset = preset, !.binaural_base_freq = base,
                !.binaural_beat_freq = beat]

BinauralConfigs ==
    {WithBinaural(ProjectConfig(<<"M", "y">>, FALSE, MinLoopMinutes, Sec(8),
                                "audio_only", ""), preset, base, beat) :
        preset \in {"delta_deep_sleep", "theta_deep", "custom"},
        base \in {2000, 3000}, beat \in {25, 60}}

\* inputs of the sequence builder
SeqSeconds == {6, 10, 100, 300}
SeqCrossfades == {Sec(1), Sec(3), Sec(8), Sec(30)}

RECURSIVE SeqsUpTo(_, _)
SeqsUpTo(S, n) ==
    IF n = 0 THEN {<<>>}
    ELSE LET shorter == SeqsUpTo(S, n - 1)
         IN  shorter \cup {Append(q, x) : q \in shorter, x \in S}

SeqTrackLists ==
    SeqsUpTo({AudioTrack("t", sec, 0 - 20) : sec \in SeqSeconds}, MaxTracks) \ {<<>>}

SeqConfigs ==
    {ProjectConfig(<<"M", "y">>, FALSE, MinLoopMinutes, cf, "audio_only", "") :
        cf \in SeqCrossfades}

-----------------------------------------------------------------------------
(* Spec: one AudioProcessor run, as start_processing constructs it *)

EmptyFs == [f \in {} |-> 0]

\* no pure method is being called
NoFrame == [pc |-> "idle"]

Init ==
    /\ heap \in {<<tr>> : tr \in PipelineTrackLists}
    /\ ui_tracks = 1
    /\ images \in {<<>>, <<"cover.png">>}
    /\ config \in PipelineConfigs \cup BinauralConfigs
    /\ export_btn = FALSE
    /\ signals = <<>>
    /\ runs = <<NewProcessor(1)>>
    /\ fs = EmptyFs
    /\ faults = AnyFault
    /\ frame = NoFrame

Next ==
    \/ \E r \in DOMAIN runs : Sequencing(r)
    \/ \E r \in DOMAIN runs : Binaural(r)
    \/ \E r \in DOMAIN runs : Mixing(r)
    \/ \E r \in DOMAIN runs : Exporting(r)
    \/ \E r \in DOMAIN runs : Video(r)
    \/ \E r \in DOMAIN runs : Finalizing(r)

Spec == Init /\ [][Next]_vars

(* SpecSeq: the sequence builder on every bounded track list and crossfade *)

InitSeq ==
    /\ heap \in {<<tr>> : tr \in SeqTrackLists}
    /\ ui_tracks = 1
    /\ images = <<>>
    /\ config \in SeqConfigs
    /\ export_btn = FALSE
    /\ signals = <<>>
    /\ runs = <<NewProcessor(1)>>
    /\ fs = EmptyFs
    /\ faults = AnyFault
    /\ frame = NoFrame

NextSeq == \E r \in DOMAIN runs : Sequencing(r)

SpecSeq == InitSeq /\ [][NextSeq]_vars

-----------------------------------------------------------------------------
(* SequenceOptimizer.optimize *)

\* energy_order.get(t.energy_profile, 1)
EnergyRank(profile) ==
    IF profile = "low" THEN 0 ELSE IF profile = "high" THEN 2 ELSE 1

\* sorted(tracks, key=...): a stable sort on a key with three values
SortByEnergy(tracks) ==
    SelectSeq(tracks, LAMBDA t : EnergyRank(t.energy_profile) = 0) \o
    SelectSeq(tracks, LAMBDA t : EnergyRank(t.energy_profile) = 1) \o
    SelectSeq(tracks, LAMBDA t : EnergyRank(t.energy_profile) = 2)

Abs(x) == IF x < 0 THEN 0 - x ELSE x

RemoveAt(q, i) == SubSeq(q, 1, i - 1) \o SubSeq(q, i + 1, Len(q))

\* min(range(len(remaining)), key=...): the first index of a closest track
BestIdx(remaining, current_loudness) ==
    CHOOSE i \in 1..Len(remaining) :
        /\ \A j \in 1..Len(remaining) :
               Abs(remaining[i].loudness_lufs - current_loudness)
                   <= Abs(remaining[j].loudness_lufs - current_loudness)
        /\ \A j \in 1..(i - 1) :
               Abs(remaining[j].loudness_lufs - current_loudness)
                   > Abs(remaining[i].loudness_lufs - current_loudness)

RECURSIVE Greedy(_, _)
Greedy(optimized, remaining) ==
    IF remaining = <<>> THEN optimized
    ELSE LET best_idx == BestIdx(remaining, optimized[Len(optimized)].loudness_lufs)
         IN  Greedy(Append(optimized, remaining[best_idx]), RemoveAt(remaining, best_idx))

\* optimize with the early return handing back a new empty list
optimizeDropsSingle(tracks) ==
    IF Len(tracks) <= 1 THEN <<>>
    ELSE LET sorted_tracks == SortByEnergy(tracks)
         IN  Greedy(<<Head(sorted_tracks)>>, Tail(sorted_tracks))

\* optimize with `remaining = sorted_tracks` for `sorted_tracks[1:]`
optimizeKeepsFirst(tracks) ==
    IF Len(tracks) <= 1 THEN tracks
    ELSE LET sorted_tracks == SortByEnergy(tracks)
         IN  Greedy(<<Head(sorted_tracks)>>, sorted_tracks)

optimize(tracks) ==
    IF Len(tracks) <= 1 THEN tracks
    ELSE LET sorted_tracks == SortByEnergy(tracks)
         IN  Greedy(<<Head(sorted_tracks)>>, Tail(sorted_tracks))

-----------------------------------------------------------------------------
(* FlowStateWindow: the handlers of the UI thread *)

\* FlowStateWindow.__init__: self.ffmpeg_available, here with ffmpeg installed
ffmpeg_available == TRUE

\* _create_metadata_page: self.export_txt_checkbox.setChecked(True), left as is
export_txt_checkbox == TRUE

\* a file as the engine sees it.  probe is what ffprobe prints: "ok" (a JSON
\* object with format and streams), "empty" (a JSON object without them, as
\* for data ffprobe cannot read) or "none" (no JSON at all); measured says
\* whether the ebur128 run printed an "I: ... LUFS" line
AudioFile(path, probe, seconds, measured, lufs) ==
    [path |-> path, probe |-> probe, seconds |-> seconds, measured |-> measured,
     lufs |-> lufs]

\* FFmpegAnalyzer.analyze: json.loads(result.stdout) raises
AnalyzeRaises(file) == file.probe = "none"

\* FFmpegAnalyzer.analyze: rms_loudness = -20.0 unless a line is parsed
RmsLoudness(file) == IF file.measured THEN file.lufs ELSE 0 - 20

\* FFmpegAnalyzer.analyze, when it returns
analyze(file) ==
    AudioTrack(file.path, IF file.probe = "ok" THEN file.seconds ELSE 0,
               RmsLoudness(file))

\* the files the user can add: analyze() raises on the second one
AudioFiles ==
    {AudioFile("a", "ok", 6, TRUE, 0 - 30), AudioFile("bad", "none", 0, FALSE, 0)}

\* the tracks of the files of a batch that analyze() returns a track for
RECURSIVE Analyzed(_)
Analyzed(files) ==
    IF files = <<>> THEN <<>>
    ELSE IF AnalyzeRaises(Head(files))
         THEN Analyzed(Tail(files))
         ELSE <<analyze(Head(files))>> \o Analyzed(Tail(files))

\* the list objects some AudioProcessor holds
Referenced == {runs[r].tracks : r \in DOMAIN runs}

\* FlowStateWindow.process_audio_files on the batch files
AddFiles(files, max_tracks) ==
    /\ ffmpeg_available
    /\ LET new_tracks == Analyzed(files)
           extended == heap[ui_tracks] \o new_tracks
           heap1 == [heap EXCEPT ![ui_tracks] = extended]
       IN  /\ Len(extended) <= max_tracks
           /\ IF Len(extended) <= 1 \/ ui_tracks \notin Referenced
              THEN \* optimize() returned the same list, or the old list is garbage
                   /\ heap' = [heap1 EXCEPT ![ui_tracks] = optimize(extended)]
                   /\ UNCHANGED ui_tracks
              ELSE \* self.tracks now names the new list optimize() built
                   /\ heap' = Append(heap1, optimize(extended))
                   /\ ui_tracks' = Len(heap) + 1
           /\ export_btn' = (Len(extended) > 0)

\* FlowStateWindow.process_audio_files
ProcessAudioFiles ==
    /\ \E files \in SeqsUpTo(AudioFiles, MaxBatch) \ {<<>>} : AddFiles(files, MaxUiTracks)
    /\ UNCHANGED <<images, config, signals, runs, fs, faults, frame>>

\* FlowStateWindow.remove_track
RemoveTrack ==
    /\ \E index \in 0..(MaxUiTracks - 1) :
        /\ 0 <= index /\ index < Len(heap[ui_tracks])
        /\ heap' = [heap EXCEPT ![ui_tracks] = RemoveAt(@, index + 1)]
        /\ export_btn' = (Len(heap[ui_tracks]) - 1 > 0)
    /\ UNCHANGED <<ui_tracks, images, config, signals, runs, fs, faults, frame>>

\* what the widgets may hold when Create Master Track is clicked
WidgetConfigs ==
    {ProjectConfig(<<"M", "y">>, FALSE, MinLoopMinutes, Sec(8), "audio_only", ""),
     ProjectConfig(<<"x">>, FALSE, MinLoopMinutes, Sec(8), "audio_only", "")}

\* FlowStateWindow.start_processing, connected to export_btn.clicked
StartProcessing ==
    /\ export_btn
    /\ Len(runs) < MaxRuns
    /\ heap[ui_tracks] # <<>>
    /\ \E widgets \in WidgetConfigs : config' = widgets
    /\ export_btn' = FALSE
    /\ runs' = Append(runs, NewProcessor(ui_tracks))
    /\ UNCHANGED <<heap, ui_tracks, images, signals, fs, faults, frame>>

\* FlowStateWindow.processing_finished with _export_youtube_metadata
ProcessingFinished ==
    /\ signals # <<>> /\ Head(signals).type = "finished"
    /\ signals' = Tail(signals)
    /\ fs' = IF export_txt_checkbox
             THEN WriteFile(fs, ExportFile(SafeName(config.project_name),
                                           "_youtube_metadata.txt"), 0)
             ELSE fs
    /\ export_btn' = TRUE
    /\ UNCHANGED <<heap, ui_tracks, images, config, runs, faults, frame>>

\* FlowStateWindow.processing_error
ProcessingError ==
    /\ signals # <<>> /\ Head(signals).type = "error"
    /\ signals' = Tail(signals)
    /\ export_btn' = TRUE
    /\ UNCHANGED <<heap, ui_tracks, images, config, runs, fs, faults, frame>>

(* SpecUI: the window after construction, its handlers and its workers *)

InitUI ==
    /\ heap = <<<<>>>>
    /\ ui_tracks = 1
    /\ images = <<>>
    /\ config = ProjectConfig(<<"M", "y">>, TRUE, 60, Sec(8), "black_screen", "")
    /\ export_btn = FALSE
    /\ signals = <<>>
    /\ runs = <<>>
    /\ fs = EmptyFs
    /\ faults = MixFault
    /\ frame = NoFrame

NextUI ==
    \/ ProcessAudioFiles
    \/ RemoveTrack
    \/ StartProcessing
    \/ ProcessingFinished
    \/ ProcessingError
    \/ \E r \in DOMAIN runs : Sequencing(r)
    \/ \E r \in DOMAIN runs : Binaural(r)
    \/ \E r \in DOMAIN runs : Mixing(r)
    \/ \E r \in DOMAIN runs : Exporting(r)
    \/ \E r \in DOMAIN runs : Video(r)
    \/ \E r \in DOMAIN runs : Finalizing(r)

SpecUI == InitUI /\ [][NextUI]_vars

-----------------------------------------------------------------------------
(* Properties of a run *)

Terminal == {"done", "failed", "crashed"}

EventsOf(rec, type) == {i \in 1..Len(rec.events) : rec.events[i].type = type}

\* the stages named by the stage_started signals of a run, in emission order
RECURSIVE StartedStages(_)
StartedStages(events) ==
    IF events = <<>> THEN <<>>
    ELSE IF Head(events).type = "stage_started"
         THEN <<Head(events).stage>> \o StartedStages(Tail(events))
         ELSE StartedStages(Tail(events))

StageIndex(stage) == CHOOSE k \in 1..Len(Stages) : Stages[k] = stage

TempLeft(rec) == {f \in rec.wrote : f.dir = "tmp" /\ Exists(f, fs)}
ExportsLeft(rec) == {f \in rec.wrote : f.dir = "exports" /\ Exists(f, fs)}

\* C1: the stage_started signals of a run name the stages in the order
\* sequencing, binaural, mixing, exporting, video, finalizing, each at most
\* once; every stage_completed comes after the stage_started of its stage;
\* and a stage is started only after the previous stage has completed.
C1_StageOrder ==
    \A r \in DOMAIN runs :
        LET ev == runs[r].events
            started == StartedStages(ev)
        IN  /\ Len(started) <= Len(Stages)
            /\ started = SubSeq(Stages, 1, Len(started))
            /\ \A j \in EventsOf(runs[r], "stage_completed") :
                   \E i \in 1..(j - 1) :
                       ev[i].type = "stage_started" /\ ev[i].stage = ev[j].stage
            /\ \A j \in EventsOf(runs[r], "stage_started") :
                   StageIndex(ev[j].stage) > 1 =>
                       \E i \in 1..(j - 1) :
                           /\ ev[i].type = "stage_completed"
                           /\ ev[i].stage = Stages[StageIndex(ev[j].stage) - 1]

C1_Witness ==
    \E r \in DOMAIN runs :
        runs[r].pc = "done" /\ StartedStages(runs[r].events) = Stages

\* C2: a run emits at most one terminal signal and nothing after it; a run
\* that failed emitted exactly one error signal, carrying the message of the
\* exception that aborted it, and no finished signal; a run that did not
\* fail emitted exactly one finished signal and no error signal; a run that
\* is still in a stage has emitted neither.
C2_OneTerminalEvent ==
    \A r \in DOMAIN runs :
        LET ev == runs[r].events
            errors == EventsOf(runs[r], "error")
            finishes == EventsOf(runs[r], "finished")
        IN  /\ \A i \in errors \cup finishes : i = Len(ev)
            /\ runs[r].pc = "failed" =>
                   /\ Cardinality(errors) = 1 /\ finishes = {}
                   /\ runs[r].exc # NoExc
                   /\ ev[Len(ev)].msg = runs[r].exc
            /\ runs[r].pc = "done" =>
                   Cardinality(finishes) = 1 /\ errors = {} /\ runs[r].exc = NoExc
            /\ runs[r].pc \notin Terminal => errors = {} /\ finishes = {}
            /\ runs[r].exc # NoExc => runs[r].pc # "done"

C2_Witness ==
    \E r \in DOMAIN runs :
        /\ runs[r].pc = "failed" /\ runs[r].exc = "mix"
        /\ runs[r].events[Len(runs[r].events)] = Ev("error", "", 0, 0, "mix")

\* C3 (as claimed): once a run has failed, and every deletion it attempted
\* succeeded, no file it wrote under the temp directory remains.
C3_FailedRunLeavesNoTemp ==
    \A r \in DOMAIN runs :
        runs[r].pc = "failed" /\ ~runs[r].del_failed => TempLeft(runs[r]) = {}

\* the runs that have emitted neither finished nor error
InFlight == {r \in DOMAIN runs : runs[r].pc \notin Terminal}

\* C4 (as claimed): at most one AudioProcessor run is in flight at a time.
C4_AtMostOneRunInFlight == Cardinality(InFlight) <= 1

\* C5 (as claimed): once a run has failed, the exports directory holds no
\* file the run wrote.
C5_FailedRunLeavesNoExport ==
    \A r \in DOMAIN runs :
        runs[r].pc = "failed" => ExportsLeft(runs[r]) = {}

\* C6: cleanup never raises: no run dies with an exception escaping run(),
\* also when files are undeletable or already missing; and the message of
\* the error signal is that of the stage invocation that failed, never one
\* raised by cleanup; a run none of whose stages failed still finishes when
\* its cleanup meets undeletable files.
C6_CleanupNeverRaises ==
    \A r \in DOMAIN runs :
        /\ runs[r].pc # "crashed"
        /\ runs[r].exc \in StageCalls \cup {NoExc}
        /\ \A i \in EventsOf(runs[r], "error") :
               runs[r].events[i].msg \in StageCalls /\ runs[r].events[i].msg = runs[r].exc

C6_Witness ==
    \E r \in DOMAIN runs :
        /\ runs[r].pc = "failed" /\ runs[r].del_failed
        /\ \E f \in Range(runs[r].temp_files) : Exists(f, fs)

\* C7: after a successful run all of whose attempted deletions succeeded, no
\* file the run wrote under the temp directory remains.
C7_DoneRunLeavesNoTemp ==
    \A r \in DOMAIN runs :
        runs[r].pc = "done" /\ ~runs[r].del_failed => TempLeft(runs[r]) = {}

C7_Witness ==
    \E r \in DOMAIN runs :
        /\ runs[r].pc = "done" /\ ~runs[r].del_failed
        /\ {LoopedWav, IntroPartMp4, BlackPartMp4, ConcatTxt, VideoBlackMp4}
               \subseteq runs[r].wrote

-----------------------------------------------------------------------------
(* Properties of the sequence builder *)

\* the runs whose sequence builder took the multi-track path
MultiTrack(r) == Len(runs[r].sequenced) >= 2

Durations(tr) == [k \in 1..Len(tr) |-> tr[k].duration]
ShortestTrack(tr) == MinOf(Range(Durations(tr)))

Crossfades(parts) == SelectSeq(parts, LAMBDA p : p.f = "acrossfade")

\* C8 (as claimed): the safe crossfade of a multi-track run is exactly
\* min(configured crossfade, shortest track / 2), with no other ceiling.
C8_SafeCrossfadeIsMin ==
    \A r \in DOMAIN runs :
        MultiTrack(r) =>
            2 * runs[r].safe_crossfade =
                Min2(2 * config.crossfade_seconds, ShortestTrack(runs[r].sequenced))

\* C9: the safe crossfade of a multi-track run is at most the configured
\* crossfade and at most half the duration of the shortest track.
C9_SafeCrossfadeBounded ==
    \A r \in DOMAIN runs :
        MultiTrack(r) =>
            /\ runs[r].safe_crossfade <= config.crossfade_seconds
            /\ 2 * runs[r].safe_crossfade <= ShortestTrack(runs[r].sequenced)

\* the half-shortest-track cap is the binding one
C9_Witness ==
    \E r \in DOMAIN runs :
        /\ MultiTrack(r)
        /\ 2 * runs[r].safe_crossfade = ShortestTrack(runs[r].sequenced)
        /\ runs[r].safe_crossfade < config.crossfade_seconds
        /\ runs[r].safe_crossfade < CrossfadeCeiling

\* C10: for N >= 2 tracks the filter graph holds exactly N-1 crossfades, all
\* of the safe crossfade duration, chained left to right (the first joins
\* tracks 0 and 1, the k-th joins the result so far with track k), and the
\* rendered sequence lasts sum(track durations) - (N-1) * safe crossfade.
C10_CrossfadeChain ==
    \A r \in DOMAIN runs :
        MultiTrack(r) /\ runs[r].pc = "binaural" =>
            LET n == Len(runs[r].sequenced)
                cfs == Crossfades(runs[r].filter_parts)
                safe == runs[r].safe_crossfade
                expected == SumSeq(Durations(runs[r].sequenced)) - (n - 1) * safe
            IN  /\ Len(cfs) = n - 1
                /\ \A k \in 1..Len(cfs) :
                       /\ cfs[k].d = safe
                       /\ cfs[k].ins[1] = IF k = 1 THEN Lbl("a", 0) ELSE cfs[k - 1].out
                       /\ cfs[k].ins[2] = Lbl("a", k)
                /\ runs[r].seq_duration = expected
                /\ Exists(SequencedWav, fs) /\ fs[SequencedWav] = expected

C10_Witness ==
    \E r \in DOMAIN runs :
        /\ Len(runs[r].sequenced) = 3 /\ runs[r].pc = "binaural"
        /\ Len(Crossfades(runs[r].filter_parts)) = 2
        /\ runs[r].safe_crossfade > 0
        /\ Exists(SequencedWav, fs)

-----------------------------------------------------------------------------
(* End-to-end scenario of the sequence builder *)

\* the run sequences tracks of exactly these lengths (in seconds), in order
Sequences(r, seconds) ==
    Durations(runs[r].sequenced) = [k \in 1..Len(seconds) |-> Sec(seconds[k])]

\* C11 (as claimed): three tracks of 300 s, 400 s and 200 s with a configured
\* crossfade of 8 s are joined with a safe crossfade of 8 s, and the
\* sequenced audio lasts 900 - 2 * 8 = 884 s.
C11_EndToEnd884 ==
    \A r \in DOMAIN runs :
        /\ Sequences(r, <<300, 400, 200>>)
        /\ config.crossfade_seconds = Sec(8)
        /\ runs[r].pc = "binaural"
        => /\ runs[r].safe_crossfade = Sec(8)
           /\ runs[r].seq_duration = Sec(884)
           /\ fs[SequencedWav] = Sec(884)

-----------------------------------------------------------------------------
(* Properties of the single-track path *)

FadesOf(parts, f) == SelectSeq(parts, LAMBDA p : p.f = f)

\* C12 (as claimed): a single-track run fades in for fade_in_seconds from
\* t = 0 and fades out for fade_out_seconds ending at the end of the track,
\* i.e. the fade-out starts at track duration - fade_out_seconds.
C12_SingleTrackFades ==
    \A r \in DOMAIN runs :
        Len(runs[r].sequenced) = 1 /\ runs[r].pc = "binaural" =>
            LET fade_in == FadesOf(runs[r].filter_parts, "afade_in")
                fade_out == FadesOf(runs[r].filter_parts, "afade_out")
            IN  /\ Len(fade_in) = 1 /\ Len(fade_out) = 1
                /\ fade_in[1].st = 0
                /\ fade_in[1].d = config.fade_in_seconds
                /\ fade_out[1].d = config.fade_out_seconds
                /\ fade_out[1].st =
                       runs[r].sequenced[1].duration - config.fade_out_seconds

-----------------------------------------------------------------------------
(* SpecOpt: SequenceOptimizer.optimize called on every bounded track list *)

\* an AudioTrack nothing has analyzed yet: energy_profile keeps its default
Unanalyzed(path, seconds, lufs) ==
    [AudioTrack(path, seconds, lufs) EXCEPT !.energy_profile = "unknown"]

\* the tracks of the optimizer's inputs: two or more of each energy class,
\* pairs of equal loudness and pairs at the same distance from a third
OptTracks ==
    {AudioTrack("a", 10, 0 - 40), AudioTrack("b", 10, 0 - 30),
     AudioTrack("c", 10, 0 - 26), AudioTrack("d", 10, 0 - 26),
     AudioTrack("e", 10, 0 - 24), AudioTrack("f", 10, 0 - 22),
     AudioTrack("g", 10, 0 - 10), Unanalyzed("h", 10, 0 - 14)}

OptTrackLists == SeqsUpTo(OptTracks, MaxTracks)

InitOpt ==
    /\ heap = <<<<>>>>
    /\ ui_tracks = 1
    /\ images = <<>>
    /\ config = ProjectConfig(<<"M", "y">>, TRUE, 60, Sec(8), "black_screen", "")
    /\ export_btn = FALSE
    /\ signals = <<>>
    /\ runs = <<>>
    /\ fs = EmptyFs
    /\ faults = MixFault
    /\ frame \in {[pc |-> "call", fn |-> "optimize", tracks |-> tracks, result |-> <<>>] :
                     tracks \in OptTrackLists}

\* a call of SequenceOptimizer.optimize returns
Optimize ==
    /\ frame.pc = "call" /\ frame.fn = "optimize"
    /\ frame' = [frame EXCEPT !.pc = "returned", !.result = optimize(frame.tracks)]
    /\ UNCHANGED <<heap, ui_tracks, images, config, export_btn, signals, runs, fs,
                   faults>>

NextOpt == Optimize

SpecOpt == InitOpt /\ [][NextOpt]_vars

Returned(fn) == frame.pc = "returned" /\ frame.fn = fn

RankAt(tracks, i) == EnergyRank(tracks[i].energy_profile)

\* C13 (as claimed): the list optimize returns is non-decreasing in energy
\* rank (low 0, mid and unknown 1, high 2): no track of a higher rank stands
\* before a track of a lower rank.
C13_EnergyNonDecreasing ==
    Returned("optimize") =>
        \A i, j \in 1..Len(frame.result) :
            i < j => RankAt(frame.result, i) <= RankAt(frame.result, j)

Perms(n) == {p \in [1..n -> 1..n] : \A i, j \in 1..n : i # j => p[i] # p[j]}

\* result is tracks rearranged by p: result[k] is the input track tracks[p[k]]
Rearranges(p, tracks, result) ==
    /\ Len(result) = Len(tracks)
    /\ \A k \in 1..Len(tracks) : result[k] = tracks[p[k]]

\* the input indices still in the pool when position k is filled
Pool(p, k) == {p[m] : m \in k..Len(frame.tracks)}

Delta(tracks, i, last) == Abs(tracks[i].loudness_lufs - tracks[last].loudness_lufs)

\* C14 (as claimed): every track optimize places after the first is, among the
\* tracks still in the pool, one whose loudness is closest to that of the track
\* placed last, and of several equally close ones it is the one with the
\* earliest index in the original input list.
C14_ClosestEarliestOriginal ==
    Returned("optimize") /\ Len(frame.tracks) > 1 =>
        \E p \in Perms(Len(frame.tracks)) :
            /\ Rearranges(p, frame.tracks, frame.result)
            /\ \A k \in 2..Len(frame.tracks) : \A i \in Pool(p, k) :
                   \/ Delta(frame.tracks, p[k], p[k - 1]) < Delta(frame.tracks, i, p[k - 1])
                   \/ /\ Delta(frame.tracks, p[k], p[k - 1]) = Delta(frame.tracks, i, p[k - 1])
                      /\ p[k] <= i

\* C15: optimize returns a permutation of its input: the same length, and each
\* input track exactly once, tracks of equal loudness and energy class
\* included.
C15_Permutation ==
    Returned("optimize") =>
        \E p \in Perms(Len(frame.tracks)) : Rearranges(p, frame.tracks, frame.result)

\* a list of three or more with two tracks of equal loudness and energy class
\* came back in another order
C15_Witness ==
    /\ Returned("optimize")
    /\ Len(frame.tracks) >= 3
    /\ frame.result # frame.tracks
    /\ \E i, j \in 1..Len(frame.tracks) :
           /\ i # j
           /\ frame.tracks[i].loudness_lufs = frame.tracks[j].loudness_lufs
           /\ frame.tracks[i].energy_profile = frame.tracks[j].energy_profile

\* C16: for a track list of size 0 or 1 optimize returns its input unchanged.
C16_SmallUnchanged ==
    Returned("optimize") /\ Len(frame.tracks) <= 1 => frame.result = frame.tracks

\* optimize has returned for the empty list and for a list of one track
C16_WitnessEmpty == Returned("optimize") /\ frame.tracks = <<>>

C16_Witness == Returned("optimize") /\ Len(frame.tracks) = 1 /\ frame.result = frame.tracks

\* the binaural render of run r has been requested
BinauralRequested(r) == runs[r].left_freq # 0

\* C17 (as claimed): the binaural layer of a run has its left channel at the
\* configured binaural_base_freq and its right channel at binaural_base_freq +
\* binaural_beat_freq, whichever preset is selected.
C17_BinauralFromConfig ==
    \A r \in DOMAIN runs :
        BinauralRequested(r) =>
            /\ runs[r].left_freq = config.binaural_base_freq
            /\ runs[r].right_freq = config.binaural_base_freq + config.binaural_beat_freq

-----------------------------------------------------------------------------
(* SpecGen: BinauralGenerator.generate called MaxCalls times on the same
   arguments, the file system changing between the calls *)

GenerateArgs ==
    [duration : {Sec(6), Sec(892)}, base_freq : {1000, 2000, 4000},
     beat_freq : {5, 25, 400}, output_path : {BinauralWav},
     sample_rate : {44100, DefaultSampleRate}]

InitGen ==
    /\ heap = <<<<>>>>
    /\ ui_tracks = 1
    /\ images = <<>>
    /\ config = ProjectConfig(<<"M", "y">>, TRUE, 60, Sec(8), "black_screen", "")
    /\ export_btn = FALSE
    /\ signals = <<>>
    /\ runs = <<>>
    /\ fs = EmptyFs
    /\ faults = [fail |-> {"binaural"}, partial |-> BOOLEAN, stuck |-> FALSE]
    /\ frame \in {[pc |-> "call", fn |-> "generate", args |-> args, results |-> <<>>] :
                     args \in GenerateArgs}

\* one call of BinauralGenerator.generate: frame.results gets the command it ran
Generate ==
    /\ frame.pc = "call" /\ frame.fn = "generate"
    /\ \E fail \in Fails({"binaural"}) : \E partial \in Partials(fail) :
        LET cmd == BinauralCmd(frame.args.duration, frame.args.base_freq,
                               frame.args.beat_freq, frame.args.output_path,
                               frame.args.sample_rate)
        IN  /\ fs' = generate(St(NewProcessor(1), fs), cmd, fail, partial).files
            /\ frame' = [frame EXCEPT
                            !.results = Append(@, cmd),
                            !.pc = IF Len(frame.results) + 1 < MaxCalls
                                   THEN "call" ELSE "returned"]
    /\ UNCHANGED <<heap, ui_tracks, images, config, export_btn, signals, runs, faults>>

NextGen == Generate

SpecGen == InitGen /\ [][NextGen]_vars

Calling(fn) == frame.pc # "idle" /\ frame.fn = fn

-----------------------------------------------------------------------------
(* SpecLoop: one-track runs of AudioProcessor over mixes shorter than, as long
   as and longer than the loop target, and step 5 of FlowState_v1's
   AudioPipeline._process on the same durations *)

\* FlowState_v1: loops_needed = int(target_duration / seq_duration) + 1
v1_loops_needed(target_duration, seq_duration) ==
    (target_duration \div seq_duration) + 1

\* FlowState_v1, "Step 5: Loop if needed".  mixed.wav is as long as
\* sequenced.wav: the binaural layer is cut at seq_duration and amix keeps the
\* longest input.  rendered is the length of the file final_audio names.
v1_loop_step(seq_duration, target_duration, fail) ==
    IF seq_duration < target_duration
    THEN [looped |-> TRUE, exc |-> fail,
          loops_needed |-> v1_loops_needed(target_duration, seq_duration),
          rendered |-> StreamLoop(seq_duration,
                                  v1_loops_needed(target_duration, seq_duration),
                                  target_duration),
          final_duration |-> target_duration]
    ELSE [looped |-> FALSE, exc |-> "none", loops_needed |-> 0,
          rendered |-> seq_duration, final_duration |-> seq_duration]

\* lengths of the one track, in seconds, and loop targets, in minutes
LoopSeconds == {6, 892, 1799, 1800, 2000}
LoopMinutes == {MinLoopMinutes, 480}

LoopInputs ==
    [seconds : LoopSeconds, minutes : LoopMinutes, loop : BOOLEAN,
     mode : {"audio_only", "black_screen"}]

InitLoop ==
    \E in \in LoopInputs :
        /\ heap = <<<<AudioTrack("a", in.seconds, 0 - 20)>>>>
        /\ ui_tracks = 1
        /\ images = <<>>
        /\ config = ProjectConfig(<<"M", "y">>, in.loop, in.minutes, Sec(8),
                                  in.mode, "")
        /\ export_btn = FALSE
        /\ signals = <<>>
        /\ runs = <<NewProcessor(1)>>
        /\ fs = EmptyFs
        /\ faults = AnyFault
        /\ frame = [pc |-> "call", fn |-> "v1_loop",
                    args |-> [seq_duration |-> Sec(in.seconds),
                              target_duration |-> Sec(in.minutes * 60)],
                    result |-> <<>>]

\* step 5 of AudioPipeline._process
V1Loop ==
    /\ frame.pc = "call" /\ frame.fn = "v1_loop"
    /\ \E fail \in Fails({"loop"}) :
        frame' = [frame EXCEPT
                     !.pc = "returned",
                     !.result = v1_loop_step(frame.args.seq_duration,
                                             frame.args.target_duration, fail)]
    /\ UNCHANGED <<heap, ui_tracks, images, config, export_btn, signals, runs, fs,
                   faults>>

NextLoop ==
    \/ \E r \in DOMAIN runs : Sequencing(r)
    \/ \E r \in DOMAIN runs : Binaural(r)
    \/ \E r \in DOMAIN runs : Mixing(r)
    \/ \E r \in DOMAIN runs : Exporting(r)
    \/ \E r \in DOMAIN runs : Video(r)
    \/ \E r \in DOMAIN runs : Finalizing(r)
    \/ V1Loop

SpecLoop == InitLoop /\ [][NextLoop]_vars

TargetDuration == Sec(config.target_duration_minutes * 60)

\* the loop render of run r succeeded and its output is still on disk
Looped(r) == runs[r].final_audio = LoopedWav /\ Exists(LoopedWav, fs)

ExportedWav == ExportFile(SafeName(config.project_name), "_master.wav")

\* C19: whenever the loop is triggered its output lasts exactly the target
\* duration, and so does the exported copy; in FlowState_v1, which loops
\* int(target / mixed) + 1 more times, the repeated material covers the target
\* and the cut leaves exactly the target.
C19_LoopExactTarget ==
    /\ \A r \in DOMAIN runs :
           Looped(r) =>
               /\ fs[LoopedWav] = TargetDuration
               /\ runs[r].audio_path = ExportedWav /\ Exists(ExportedWav, fs) =>
                      fs[ExportedWav] = TargetDuration
    /\ Returned("v1_loop") /\ frame.result.looped /\ frame.result.exc = "none" =>
           /\ (frame.result.loops_needed + 1) * frame.args.seq_duration
                  >= frame.args.target_duration
           /\ frame.result.rendered = frame.args.target_duration

\* a mix of 892 s was looped to 8 hours by both variants
C19_Witness ==
    /\ \E r \in DOMAIN runs :
           /\ Looped(r) /\ runs[r].audio_path = ExportedWav
           /\ Durations(runs[r].sequenced) = <<Sec(892)>>
           /\ fs[LoopedWav] = Sec(28800)
    /\ Returned("v1_loop") /\ frame.result.looped
    /\ frame.result.exc = "none"
    /\ frame.result.loops_needed = 33

\* a loop render of run r was issued: it wrote its output or it failed
LoopIssued(r) == LoopedWav \in runs[r].wrote \/ runs[r].exc = "loop"

VideoMp4 == ExportFile(SafeName(config.project_name), ".mp4")

\* C20: the loop render is issued if and only if looping is enabled and the
\* target duration exceeds the duration of the mix; otherwise no loop render
\* is issued and the audio exported and muxed is the mix, unchanged.
\* FlowState_v1 has no switch: it loops exactly when the target exceeds the mix.
C20_LoopIffEnabledAndShorter ==
    /\ \A r \in DOMAIN runs :
           /\ runs[r].pc = "video" =>
                  /\ LoopIssued(r) <=>
                         config.loop_mode /\ TargetDuration > fs[MixedWav]
                  /\ ~LoopIssued(r) =>
                         /\ runs[r].final_audio = MixedWav
                         /\ LoopedWav \notin DOMAIN fs
                         /\ fs[ExportedWav] = fs[MixedWav]
           /\ runs[r].pc = "finalizing" /\ runs[r].video_path = VideoMp4
                  /\ ~LoopIssued(r) =>
                  fs[VideoMp4] = fs[MixedWav]
           /\ Len(runs[r].sequenced) = 1 /\ LoopIssued(r) =>
                  /\ config.loop_mode
                  /\ TargetDuration > runs[r].sequenced[1].duration
    /\ Returned("v1_loop") =>
           /\ frame.result.looped <=>
                  frame.args.target_duration > frame.args.seq_duration
           /\ ~frame.result.looped => frame.result.rendered = frame.args.seq_duration

\* with looping enabled, a mix exactly as long as the target was exported and
\* muxed without a loop render
C20_Witness ==
    \E r \in DOMAIN runs :
        /\ runs[r].pc = "finalizing" /\ runs[r].video_path = VideoMp4
        /\ config.loop_mode
        /\ fs[MixedWav] = TargetDuration
        /\ ~LoopIssued(r)
        /\ fs[ExportedWav] = fs[MixedWav]

\* C21 (as claimed): when the loop render runs, its fade-in starts at 0 and its
\* sub-second fade-out ends at the target duration, that is, starts at the
\* target duration minus the length of the fade.
C21_LoopFadesAtEnds ==
    \A r \in DOMAIN runs :
        Looped(r) =>
            LET fade_in == FadesOf(runs[r].loop_filters, "afade_in")
                fade_out == FadesOf(runs[r].loop_filters, "afade_out")
            IN  /\ Len(fade_in) = 1 /\ Len(fade_out) = 1
                /\ fade_in[1].st = 0
                /\ fade_out[1].d < Sec(1)
                /\ fade_out[1].st = TargetDuration - fade_out[1].d

-----------------------------------------------------------------------------
(* SpecName: the export name each pipeline variant derives from a project
   name *)

\* FlowState_v1.sanitize_filename
sanitize_filename(name) ==
    LET safe == RStrip(LStrip(KeepChars(name)))
    IN  IF safe = <<>> THEN DefaultExportName ELSE safe

\* FlowState_stable, AudioProcessor.process, "Step 5: Export": no fallback
stable_safe_name(project_name) == RStrip(LStrip(KeepChars(project_name)))

\* web_server, "Step 6: Export files": ... .strip() or 'export'
web_safe_name(project_name) ==
    LET safe_name == RStrip(LStrip(KeepChars(project_name)))
    IN  IF safe_name = <<>> THEN <<"export">> ELSE safe_name

\* the project name of the spec's example, "My: Sleep/Mix!"
MySleepMix ==
    <<"M", "y", ":", " ", "S", "l", "e", "e", "p", "/", "M", "i", "x", "!">>

NameChars == {"M", "y", " ", ":", "-"}

ProjectNames == SeqsUpTo(NameChars, MaxNameLen) \cup {MySleepMix}

Variants == {"FlowState", "v1", "stable", "web"}

InitName ==
    /\ heap = <<<<>>>>
    /\ ui_tracks = 1
    /\ images = <<>>
    /\ config = ProjectConfig(<<"M", "y">>, TRUE, 60, Sec(8), "black_screen", "")
    /\ export_btn = FALSE
    /\ signals = <<>>
    /\ runs = <<>>
    /\ fs = EmptyFs
    /\ faults = MixFault
    /\ frame \in {[pc |-> "call", fn |-> "safe_name", variant |-> v,
                   name |-> name, result |-> <<>>] :
                     v \in Variants, name \in ProjectNames}

NameReturns(variant, safe_name) ==
    /\ frame.pc = "call" /\ frame.fn = "safe_name" /\ frame.variant = variant
    /\ frame' = [frame EXCEPT !.pc = "returned", !.result = safe_name]
    /\ UNCHANGED <<heap, ui_tracks, images, config, export_btn, signals, runs, fs,
                   faults>>

\* AudioProcessor._export_audio: safe_name
ExportNameFlowState == NameReturns("FlowState", SafeName(frame.name))

\* FlowState_v1: safe_name = sanitize_filename(self.config.project_name)
ExportNameV1 == NameReturns("v1", sanitize_filename(frame.name))

ExportNameStable == NameReturns("stable", stable_safe_name(frame.name))

ExportNameWeb == NameReturns("web", web_safe_name(frame.name))

NextName ==
    \/ ExportNameFlowState
    \/ ExportNameV1
    \/ ExportNameStable
    \/ ExportNameWeb

SpecName == InitName /\ [][NextName]_vars

\* the characters of name that the sanitization keeps, in order
Kept(name) == SelectSeq(name, LAMBDA c : c \in KeptChars)

\* q without its leading and trailing spaces
Trimmed(q) ==
    IF \A k \in 1..Len(q) : q[k] = " " THEN <<>>
    ELSE LET first == CHOOSE i \in 1..Len(q) :
                          q[i] # " " /\ \A k \in 1..(i - 1) : q[k] = " "
             last == CHOOSE j \in 1..Len(q) :
                         q[j] # " " /\ \A k \in (j + 1)..Len(q) : q[k] = " "
         IN  SubSeq(q, first, last)

\* the variants of the claim's sources: FlowState.py and FlowState_v1.py
Sanitized ==
    Returned("safe_name") /\ frame.variant \in {"FlowState", "v1"}

\* C22 (as claimed): the sanitized name is exactly the alphanumeric, hyphen,
\* underscore and space characters of the project name, and "My: Sleep/Mix!"
\* becomes "My Sleep Mix".
C22_SanitizeAsClaimed ==
    Sanitized /\ Kept(frame.name) # <<>> =>
        /\ frame.result = Kept(frame.name)
        /\ frame.name = MySleepMix =>
               frame.result = <<"M", "y", " ", "S", "l", "e", "e", "p", " ", "M", "i", "x">>

\* C22 (amended): the sanitized name is the alphanumeric, hyphen, underscore
\* and space characters of the project name, in order, without leading and
\* trailing spaces, and "My: Sleep/Mix!" becomes "My SleepMix".
C22_Sanitize ==
    Sanitized /\ Trimmed(Kept(frame.name)) # <<>> =>
        /\ frame.result = Trimmed(Kept(frame.name))
        /\ frame.name = MySleepMix =>
               frame.result = <<"M", "y", " ", "S", "l", "e", "e", "p", "M", "i", "x">>

\* "My: Sleep/Mix!" has been sanitized by _export_audio
C22_Witness ==
    /\ Sanitized /\ frame.variant = "FlowState"
    /\ frame.name = MySleepMix
    /\ frame.result = <<"M", "y", " ", "S", "l", "e", "e", "p", "M", "i", "x">>

\* C23 (as claimed): in every variant a project name that sanitizes to the
\* empty string gets a non-empty default name, so no export is named from an
\* empty safe name.
C23_EmptyNameFallsBack ==
    Returned("safe_name") /\ Trimmed(Kept(frame.name)) = <<>> => frame.result # <<>>

-----------------------------------------------------------------------------
(* SpecBatch: one batch of files added to a new window, and the run started
   from it *)

\* two valid files, a file ffprobe prints no JSON for and a file it prints an
\* empty JSON object for
BatchFiles ==
    {AudioFile("a", "ok", 300, TRUE, 0 - 30), AudioFile("b", "ok", 400, TRUE, 0 - 20),
     AudioFile("bad", "none", 0, FALSE, 0), AudioFile("cut", "empty", 0, FALSE, 0)}

InitBatch ==
    /\ heap = <<<<>>>>
    /\ ui_tracks = 1
    /\ images = <<>>
    /\ config = ProjectConfig(<<"M", "y">>, TRUE, 60, Sec(8), "black_screen", "")
    /\ export_btn = FALSE
    /\ signals = <<>>
    /\ runs = <<>>
    /\ fs = EmptyFs
    /\ faults = MixFault
    /\ frame \in {[pc |-> "call", fn |-> "process_audio_files", files |-> files] :
                     files \in SeqsUpTo(BatchFiles, MaxFiles) \ {<<>>}}

\* FlowStateWindow.process_audio_files on the batch drawn
ProcessBatch ==
    /\ frame.pc = "call" /\ frame.fn = "process_audio_files"
    /\ AddFiles(frame.files, Len(frame.files))
    /\ frame' = [frame EXCEPT !.pc = "returned"]
    /\ UNCHANGED <<images, config, signals, runs, fs, faults>>

NextBatch ==
    \/ ProcessBatch
    \/ StartProcessing

SpecBatch == InitBatch /\ [][NextBatch]_vars

\* the files of a batch that are sound, and the tracks they are
ValidFiles(files) == SelectSeq(files, LAMBDA f : f.probe = "ok")

TracksOf(files) ==
    [k \in 1..Len(files) |-> AudioTrack(files[k].path, files[k].seconds, files[k].lufs)]

\* C24 (as claimed): when the analysis of some files of a batch fails, the
\* track list holds exactly the tracks of the other files (one corrupt file of
\* three leaves the two valid tracks), and those are the tracks a run started
\* from the list sequences.
C24_BatchTolerance ==
    Returned("process_audio_files") =>
        LET valid == TracksOf(ValidFiles(frame.files))
        IN  /\ \E p \in Perms(Len(valid)) : Rearranges(p, valid, heap[ui_tracks])
            /\ \A r \in DOMAIN runs :
                   \E p \in Perms(Len(valid)) : Rearranges(p, valid, heap[runs[r].tracks])

-----------------------------------------------------------------------------
(* SpecAnalyze: FFmpegAnalyzer.analyze on one file *)

\* integrated loudness values on either side of and on both thresholds
AnalyzeLoudness == {0 - 40, 0 - 26, 0 - 25, 0 - 24, 0 - 19, 0 - 18, 0 - 17, 0 - 10}

AnalyzeFiles ==
    {AudioFile("a", probe, seconds, measured, lufs) :
        probe \in {"ok", "empty", "none"}, seconds \in {6, 300},
        measured \in BOOLEAN, lufs \in AnalyzeLoudness}

InitAnalyze ==
    /\ heap = <<<<>>>>
    /\ ui_tracks = 1
    /\ images = <<>>
    /\ config = ProjectConfig(<<"M", "y">>, TRUE, 60, Sec(8), "black_screen", "")
    /\ export_btn = FALSE
    /\ signals = <<>>
    /\ runs = <<>>
    /\ fs = EmptyFs
    /\ faults = MixFault
    /\ frame \in {[pc |-> "call", fn |-> "analyze", file |-> file, result |-> <<>>] :
                     file \in AnalyzeFiles}

\* a call of FFmpegAnalyzer.analyze returns a track or raises
Analyze ==
    /\ frame.pc = "call" /\ frame.fn = "analyze"
    /\ frame' = IF AnalyzeRaises(frame.file)
                THEN [frame EXCEPT !.pc = "raised"]
                ELSE [frame EXCEPT !.pc = "returned", !.result = analyze(frame.file)]
    /\ UNCHANGED <<heap, ui_tracks, images, config, export_btn, signals, runs, fs,
                   faults>>

NextAnalyze == Analyze

SpecAnalyze == InitAnalyze /\ [][NextAnalyze]_vars

\* C25 (as claimed): the energy class is low below -25 LUFS, mid from -25 up
\* to but not including -18, high from -18 on, and unknown when no loudness
\* value could be parsed from the engine's output.
C25_EnergyClasses ==
    Returned("analyze") =>
        frame.result.energy_profile =
            IF ~frame.file.measured THEN "unknown"
            ELSE IF frame.file.lufs < 0 - 25 THEN "low"
            ELSE IF frame.file.lufs < 0 - 18 THEN "mid"
            ELSE "high"

-----------------------------------------------------------------------------
(* SpecInvalid: AudioProcessor runs constructed with an empty track list or
   with a binaural preset key that BINAURAL_PRESETS does not have *)

InvalidInputs ==
    {in \in [tracks : {<<>>, <<AudioTrack("a", 6, 0 - 20)>>},
             preset : {"delta_deep_sleep", "no_such_preset"},
             loop : BOOLEAN, mode : {"audio_only", "black_screen"}] :
        in.tracks = <<>> \/ in.preset = "no_such_preset"}

InitInvalid ==
    \E in \in InvalidInputs :
        /\ heap = <<in.tracks>>
        /\ ui_tracks = 1
        /\ images = <<>>
        /\ config = WithBinaural(ProjectConfig(<<"M", "y">>, in.loop, MinLoopMinutes,
                                               Sec(8), in.mode, ""),
                                 in.preset, 2000, 25)
        /\ export_btn = FALSE
        /\ signals = <<>>
        /\ runs = <<NewProcessor(1)>>
        /\ fs = EmptyFs
        /\ faults = AnyFault
        /\ frame = NoFrame

SpecInvalid == InitInvalid /\ [][Next]_vars

ConfigInvalid(r) ==
    \/ heap[runs[r].tracks] = <<>>
    \/ config.binaural_preset \notin DOMAIN BINAURAL_PRESETS

\* C26 (as claimed): a run whose configuration is invalid (an unknown binaural
\* preset key, an empty track list) fails before any stage starts: no
\* stage_started or progress event is emitted, no engine invocation writes a
\* file, and the run does not complete.
C26_InvalidFailsFirst ==
    \A r \in DOMAIN runs :
        ConfigInvalid(r) =>
            /\ EventsOf(runs[r], "stage_started") = {}
            /\ EventsOf(runs[r], "progress") = {}
            /\ runs[r].wrote = {}
            /\ runs[r].pc # "done"

-----------------------------------------------------------------------------
(* SpecCfg: one run in flight while the user edits the project name and    *)
(* saves or loads a template.  Here frame holds the window's side: the     *)
(* text of the project_name widget, and whether self.config still is the    *)
(* ProjectConfig object the run was constructed with.                       *)

\* what the user may type into the project_name field
CfgNames == {<<"M", "y">>, <<"x">>}

\* the window after start_processing: the widget text was copied into the
\* config and AudioProcessor(self.tracks, self.images, self.config) started
InitCfg ==
    \E name \in CfgNames : \E mode \in {"black_screen", "audio_only"} :
        /\ heap = <<<<AudioTrack("a", 6, 0 - 20)>>>>
        /\ ui_tracks = 1
        /\ images = <<>>
        /\ config = ProjectConfig(name, FALSE, MinLoopMinutes, Sec(8), mode, "")
        /\ export_btn = FALSE
        /\ signals = <<>>
        /\ runs = <<NewProcessor(1)>>
        /\ fs = EmptyFs
        /\ faults = AnyFault
        /\ frame = [pc |-> "window", project_name |-> name, config_shared |-> TRUE]

\* the user edits the project_name field: only the widget changes
EditProjectName ==
    /\ \E name \in CfgNames \ {frame.project_name} :
        frame' = [frame EXCEPT !.project_name = name]
    /\ UNCHANGED <<heap, ui_tracks, images, config, export_btn, signals, runs, fs, faults>>

\* FlowStateWindow.save_template with a file chosen:
\* self.config.project_name = self.project_name.text()
SaveTemplate ==
    /\ config' = IF frame.config_shared
                 THEN [config EXCEPT !.project_name = frame.project_name]
                 ELSE config
    /\ fs' = WriteFile(fs, [dir |-> "desktop", base |-> frame.project_name,
                            name |-> ".flowstate"], 0)
    /\ UNCHANGED <<heap, ui_tracks, images, export_btn, signals, runs, faults, frame>>

\* FlowStateWindow.load_template with a file chosen:
\* self.config = ProjectConfig.load_from_file(filename) is a new object, and
\* the widgets show its values
LoadTemplate ==
    /\ \E f \in DOMAIN fs :
        /\ f.dir = "desktop"
        /\ frame' = [frame EXCEPT !.project_name = f.base, !.config_shared = FALSE]
    /\ UNCHANGED <<heap, ui_tracks, images, config, export_btn, signals, runs, fs, faults>>

NextCfg ==
    \/ EditProjectName
    \/ SaveTemplate
    \/ LoadTemplate
    \/ \E r \in DOMAIN runs : Sequencing(r)
    \/ \E r \in DOMAIN runs : Binaural(r)
    \/ \E r \in DOMAIN runs : Mixing(r)
    \/ \E r \in DOMAIN runs : Exporting(r)
    \/ \E r \in DOMAIN runs : Video(r)
    \/ \E r \in DOMAIN runs : Finalizing(r)

SpecCfg == InitCfg /\ [][NextCfg]_vars

\* C27: the audio export and the video export of one run carry the same
\* project name, whatever the user does in the window while the run is in
\* flight (the run reads an unchanging snapshot of the configuration)
C27_ConfigSnapshot ==
    \A r \in DOMAIN runs :
        (runs[r].audio_path # NoFile /\ runs[r].video_path # NoFile) =>
            runs[r].audio_path.base = runs[r].video_path.base

-----------------------------------------------------------------------------
(* The silent video and the final audio *)

\* the silent video file a run made and tracked, before it is muxed
SilentVideos(r) == Range(runs[r].temp_files) \cap {VideoBlackMp4, VideoImagesMp4}

\* the run muxed its video and has not cleaned up yet
Muxed(r) == runs[r].pc = "finalizing" /\ runs[r].video_path # NoFile

\* C28: in every video mode and intro configuration, the silent video a run
\* muxes is at least as long as the run's final audio, and the muxed file is
\* exactly as long as the final audio
C28_VideoCoversAudio ==
    \A r \in DOMAIN runs :
        Muxed(r) =>
            /\ SilentVideos(r) # {}
            /\ \A v \in SilentVideos(r) : fs[v] >= fs[runs[r].final_audio]
            /\ fs[runs[r].video_path] = fs[runs[r].final_audio]

\* a run whose intro is longer than its audio has muxed its video
C28_Witness ==
    \E r \in DOMAIN runs :
        /\ Muxed(r)
        /\ config.intro_text # ""
        /\ config.intro_duration_seconds > fs[runs[r].final_audio]
        /\ fs[VideoBlackMp4] > fs[runs[r].final_audio]

-----------------------------------------------------------------------------
(* The track list of a run *)

\* C29: the track list a finished run reports in its result is the list its
\* first stage sequenced, whatever tracks were added or removed in the window
\* while the run was in flight
C29_TracksFixedAtStart ==
    \A r \in DOMAIN runs :
        runs[r].pc = "done" => runs[r].result_tracks = runs[r].sequenced

-----------------------------------------------------------------------------
(* Progress events *)

\* the stage whose stage_started signal is the last one before event i
StageAt(events, i) ==
    LET started == {k \in 1..i : events[k].type = "stage_started"}
    IN  IF started = {} THEN "" ELSE events[CHOOSE k \in started : \A m \in started : m <= k].stage

\* C30: over a run every progress event reports a percentage within 0..100
\* that is not below that of any earlier progress event, and a step number
\* within 1..6 that is the position of the stage in progress; the last
\* progress event of a run that succeeded reports 100
C30_ProgressMonotone ==
    \A r \in DOMAIN runs :
        LET ev == runs[r].events
            progress == EventsOf(runs[r], "progress")
        IN  /\ \A i \in progress :
                /\ ev[i].percent \in 0..100
                /\ ev[i].step \in 1..TotalStages
                /\ Stages[ev[i].step] = StageAt(ev, i)
                /\ \A j \in progress : i < j => ev[i].percent <= ev[j].percent
            /\ runs[r].pc = "done" =>
                /\ progress # {}
                /\ \A i \in progress :
                    (\A j \in progress : j <= i) => ev[i].percent = 100

\* a run of several tracks that looped, made a video and succeeded: it
\* emitted every progress event process() has
C30_Witness ==
    \E r \in DOMAIN runs :
        /\ runs[r].pc = "done"
        /\ Len(runs[r].sequenced) > 1
        /\ runs[r].video_path # NoFile
        /\ Cardinality(EventsOf(runs[r], "progress")) = 14
        /\ {runs[r].events[i].percent : i \in EventsOf(runs[r], "progress")}
               = {1, 3, 16, 20, 33, 38, 50, 58, 59, 66, 73, 83, 91, 100}

====
